---- MODULE Spec2Model ----
(***************************************************************************)
(* Session state engine of the study-consultant service (src/main.py):     *)
(* the sessions table of profiles.db, the /chat turn handler with its two  *)
(* model calls, the fact merge, the completion detector, and the           *)
(* administrative endpoints.  Text is modelled as a sequence of one-       *)
(* character strings so that strip(), lower(), len() and the substring     *)
(* test are computed character by character as Python computes them.       *)
(***************************************************************************)
EXTENDS Integers, Sequences, FiniteSets, TLC

VARIABLES db, last, pending, solo

vars ==
    <<db, last, pending, solo>>

(***************************************************************************)
(* Bounds of the model.                                                    *)
(***************************************************************************)
\* longest transcript a turn may still be started on
MaxHist ==
    2

(***************************************************************************)
(* Text: str.strip(), str.lower(), len(), "phrase in text".                *)
(***************************************************************************)
Whitespace ==
    {" ", "\t", "\n"}

ToLower ==
    [c \in {"A","B","C","D","E","F","G","H","I","J","K","L","M",
            "N","O","P","Q","R","S","T","U","V","W","X","Y","Z"} |->
        CASE c = "A" -> "a" [] c = "B" -> "b" [] c = "C" -> "c" [] c = "D" -> "d"
          [] c = "E" -> "e" [] c = "F" -> "f" [] c = "G" -> "g" [] c = "H" -> "h"
          [] c = "I" -> "i" [] c = "J" -> "j" [] c = "K" -> "k" [] c = "L" -> "l"
          [] c = "M" -> "m" [] c = "N" -> "n" [] c = "O" -> "o" [] c = "P" -> "p"
          [] c = "Q" -> "q" [] c = "R" -> "r" [] c = "S" -> "s" [] c = "T" -> "t"
          [] c = "U" -> "u" [] c = "V" -> "v" [] c = "W" -> "w" [] c = "X" -> "x"
          [] c = "Y" -> "y" [] c = "Z" -> "z"]

LowerChar(c) ==
    IF c \in DOMAIN ToLower THEN ToLower[c] ELSE c

\* str.lower()
Lower(s) ==
    [i \in 1..Len(s) |-> LowerChar(s[i])]

RECURSIVE LStrip(_)
LStrip(s) ==
    IF s # <<>> /\ Head(s) \in Whitespace THEN LStrip(Tail(s)) ELSE s

RECURSIVE RStrip(_)
RStrip(s) ==
    IF s # <<>> /\ s[Len(s)] \in Whitespace
    THEN RStrip(SubSeq(s, 1, Len(s) - 1))
    ELSE s

\* str.strip()
Strip(s) ==
    RStrip(LStrip(s))

\* "needle in hay" on Python strings
Contains(hay, needle) ==
    \E i \in 1..(Len(hay) - Len(needle) + 1) :
        SubSeq(hay, i, i + Len(needle) - 1) = needle

(***************************************************************************)
(* Fixed utterances and the stop-signal list of the chat handler.          *)
(***************************************************************************)
\* "Hey, what's up? Tell me a bit about yourself to get started."
GREETING ==
    <<"H","e","y",","," ","w","h","a","t","'","s"," ","u","p","?"," ","T","e","l","l"," ","m","e"," ","a"," ","b","i","t"," ","a","b","o","u","t"," ","y","o","u","r","s","e","l","f"," ","t","o"," ","g","e","t"," ","s","t","a","r","t","e","d",".">>

\* "Sorry, something went wrong. Can you say that again?"
APOLOGY ==
    <<"S","o","r","r","y",","," ","s","o","m","e","t","h","i","n","g"," ","w","e","n","t"," ","w","r","o","n","g","."," ","C","a","n"," ","y","o","u"," ","s","a","y"," ","t","h","a","t"," ","a","g","a","i","n","?">>

stop_signals ==
    <<<<"i"," ","t","h","i","n","k"," ","i"," ","h","a","v","e"," ","a"," ","g","o","o","d"," ","p","i","c","t","u","r","e"," ","n","o","w">>,
      <<"i"," ","t","h","i","n","k"," ","i"," ","h","a","v","e"," ","a"," ","g","o","o","d"," ","s","e","n","s","e">>,
      <<"i"," ","f","e","e","l"," ","l","i","k","e"," ","i"," ","u","n","d","e","r","s","t","a","n","d"," ","y","o","u"," ","w","e","l","l">>,
      <<"i","'","v","e"," ","g","o","t"," ","a"," ","s","o","l","i","d"," ","s","e","n","s","e"," ","o","f"," ","w","h","e","r","e"," ","y","o","u","'","r","e"," ","a","t">>,
      <<"r","e","a","d","y"," ","t","o"," ","t","a","l","k"," ","a","b","o","u","t"," ","a"," ","p","l","a","n">>,
      <<"r","e","a","d","y"," ","t","o"," ","t","a","l","k"," ","a","b","o","u","t"," ","n","e","x","t"," ","s","t","e","p","s">>,
      <<"t","h","i","n","k"," ","w","e"," ","h","a","v","e"," ","e","n","o","u","g","h"," ","t","o"," ","s","t","a","r","t">>,
      <<"g","o","t"," ","a"," ","g","o","o","d"," ","u","n","d","e","r","s","t","a","n","d","i","n","g"," ","n","o","w">>,
      <<"i"," ","t","h","i","n","k"," ","t","h","a","t","'","s"," ","a","l","l"," ","i"," ","n","e","e","d">>,
      <<"w","e","'","v","e"," ","c","o","v","e","r","e","d"," ","t","h","e"," ","m","a","i","n"," ","t","h","i","n","g","s">>,
      <<"r","e","a","d","y"," ","t","o"," ","m","o","v","e"," ","f","o","r","w","a","r","d">>,
      <<"h","a","v","e"," ","a"," ","g","o","o","d"," ","s","e","n","s","e"," ","o","f"," ","y","o","u","r"," ","b","a","c","k","g","r","o","u","n","d">>,
      <<"r","e","a","d","y"," ","t","o"," ","d","i","s","c","u","s","s">>,
      <<"i"," ","t","h","i","n","k"," ","w","e","'","r","e"," ","g","o","o","d"," ","t","o"," ","g","o">>,
      <<"i"," ","h","a","v","e"," ","a"," ","p","r","e","t","t","y"," ","c","o","m","p","l","e","t","e"," ","p","i","c","t","u","r","e">>>>

(***************************************************************************)
(* JSON values as json.loads returns them, with Python's truth value and   *)
(* str() of each.                                                          *)
(***************************************************************************)
JStr(s) ==
    [t |-> "str", s |-> s]

JNum(n) ==
    [t |-> "num", n |-> n]

JBool(b) ==
    [t |-> "bool", b |-> b]

JNull ==
    [t |-> "null"]

JList ==
    [t |-> "list"]

JObj(d) ==
    [t |-> "obj", d |-> d]

\* bool(v), as tested by "if v and ..."
Truthy(v) ==
    CASE v.t = "str"  -> v.s # <<>>
      [] v.t = "num"  -> v.n # 0
      [] v.t = "bool" -> v.b
      [] v.t = "null" -> FALSE

Digits ==
    <<"0","1","2","3","4","5","6","7","8","9">>

RECURSIVE Decimal(_)
Decimal(n) ==
    IF n < 10 THEN <<Digits[n + 1]>>
    ELSE Decimal(n \div 10) \o <<Digits[(n % 10) + 1]>>

\* str(v)
PyStr(v) ==
    CASE v.t = "str"  -> v.s
      [] v.t = "num"  -> IF v.n < 0 THEN <<"-">> \o Decimal(0 - v.n) ELSE Decimal(v.n)
      [] v.t = "bool" -> IF v.b THEN <<"T","r","u","e">> ELSE <<"F","a","l","s","e">>
      [] v.t = "null" -> <<"N","o","n","e">>

(***************************************************************************)
(* Inputs of the model: session ids, request messages, fact keys, the      *)
(* values the extraction service may return, the replies the generation    *)
(* service may return.                                                     *)
(***************************************************************************)
SessionIds ==
    {"s1"}

\* session ids where two sessions are served side by side
ConcSessions ==
    {"s1", "s2"}

\* server processes sharing one profiles.db
Workers ==
    {"w1", "w2"}

Messages ==
    { <<>>, <<" "," ">>, <<"h","i"," ">> }

Keys ==
    {"city", "name"}

CityValues ==
    { JStr(<<"L","H","R">>), JStr(<<"L","a","h","o","r","e">>),
      JStr(<<"l","h","r">>), JStr(<<" ","X"," "," "," ">>),
      JStr(<<" ","N","/","A"," ">>), JStr(<<"U","n","k","n","o","w","n">>),
      JStr(<<"N","U","L","L","\n">>), JStr(<<"n","o","n","e">>),
      JStr(<<>>), JStr(<<" "," ">>),
      JNull, JNum(0), JNum(7) }

NameValues ==
    { JStr(<<"A","l">>), JStr(<<"\t","u","n","k","n","o","w","n"," ">>) }

ValuesFor(k) ==
    IF k = "city" THEN CityValues ELSE NameValues

\* the flat mappings the extraction service may return
CandidateDicts ==
    { d \in UNION { [K -> CityValues \cup NameValues] : K \in SUBSET Keys } :
        \A k \in DOMAIN d : d[k] \in ValuesFor(k) }

\* what model.generate_content + json.loads yield for the extraction prompt:
\* the call raises, the text is not JSON, or the text parses to a JSON value
ExtractionOutcomes ==
    { [kind |-> "fault"], [kind |-> "nonjson"],
      [kind |-> "json", value |-> JList], [kind |-> "json", value |-> JNum(42)] }
    \cup { [kind |-> "json", value |-> JObj(d)] : d \in CandidateDicts }

\* what model.generate_content yields for the reply prompt
GenerationOutcomes ==
    { [kind |-> "fault"],
      [kind |-> "text", text |-> <<" ","M","a","j","o","r","?"," ">>],
      [kind |-> "text", text |-> <<"I"," ","T","h","i","n","k"," ","W","e","'","r","e"," ",
                                   "G","o","o","d"," ","T","o"," ","G","o","!","\n">>] }

NotCalled ==
    [kind |-> "not_called"]

(***************************************************************************)
(* Profile store: the sessions table, one row per session_id.              *)
(***************************************************************************)
\* json.dumps / json.loads of a transcript or profile held in a TEXT column
JsonDumps(x) ==
    [json |-> x]

JsonLoads(txt) ==
    txt.json

\* int(is_complete) / bool(row[3])
BoolToInt(b) ==
    IF b THEN 1 ELSE 0

IntToBool(n) ==
    n # 0

\* the row inserted for an unseen session_id (is_complete DEFAULT 0)
NewRow ==
    [chat_history |-> JsonDumps(<<>>), profile_data |-> JsonDumps(<<>>),
     is_complete |-> 0]

Absent ==
    [absent |-> TRUE]

\* the row of sid in a store, or Absent
RowOf(store, sid) ==
    IF sid \in DOMAIN store THEN store[sid] ELSE Absent

init_db(store) ==
    <<>>

\* variant: a pure lookup that inserts nothing for an unseen session_id
get_session_NoInsert(store, sid, io) ==
    IF io = "fault" THEN [raised |-> TRUE, db |-> store]
    ELSE [raised |-> FALSE, db |-> store,
          session |-> IF sid \in DOMAIN store
                      THEN [session_id |-> sid,
                            chat_history |-> JsonLoads(store[sid].chat_history),
                            profile_data |-> JsonLoads(store[sid].profile_data),
                            is_complete |-> IntToBool(store[sid].is_complete)]
                      ELSE [session_id |-> sid, chat_history |-> <<>>,
                            profile_data |-> <<>>, is_complete |-> FALSE]]

get_session(store, sid, io) ==
    IF io = "fault" THEN [raised |-> TRUE, db |-> store]
    ELSE IF sid \in DOMAIN store
    THEN [raised |-> FALSE, db |-> store,
          session |-> [session_id |-> sid,
                       chat_history |-> JsonLoads(store[sid].chat_history),
                       profile_data |-> JsonLoads(store[sid].profile_data),
                       is_complete |-> IntToBool(store[sid].is_complete)]]
    ELSE [raised |-> FALSE,
          db |-> [s \in DOMAIN store \cup {sid} |->
                     IF s = sid THEN NewRow ELSE store[s]],
          session |-> [session_id |-> sid, chat_history |-> <<>>,
                       profile_data |-> <<>>, is_complete |-> FALSE]]

\* variant: the row is inserted when the session_id has none
save_session_Upsert(store, sid, profile_data, chat_history, is_complete, io) ==
    IF io = "fault" THEN [raised |-> TRUE, db |-> store]
    ELSE [raised |-> FALSE,
          db |-> [x \in DOMAIN store \cup {sid} |->
                    IF x = sid
                    THEN [chat_history |-> JsonDumps(chat_history),
                          profile_data |-> JsonDumps(profile_data),
                          is_complete |-> BoolToInt(is_complete)]
                    ELSE store[x]]]

\* variant: the row is written only if the stored transcript is a prefix of
\* the transcript being saved
save_session_IfPrefix(store, sid, profile_data, chat_history, is_complete, io) ==
    IF io = "fault" THEN [raised |-> TRUE, db |-> store]
    ELSE [raised |-> FALSE,
          db |-> IF /\ sid \in DOMAIN store
                    /\ Len(JsonLoads(store[sid].chat_history)) <= Len(chat_history)
                    /\ SubSeq(chat_history, 1, Len(JsonLoads(store[sid].chat_history)))
                          = JsonLoads(store[sid].chat_history)
                 THEN [store EXCEPT ![sid] =
                          [chat_history |-> JsonDumps(chat_history),
                           profile_data |-> JsonDumps(profile_data),
                           is_complete |-> BoolToInt(is_complete)]]
                 ELSE store]

save_session(store, sid, profile_data, chat_history, is_complete, io) ==
    IF io = "fault" THEN [raised |-> TRUE, db |-> store]
    ELSE [raised |-> FALSE,
          db |-> IF sid \in DOMAIN store
                 THEN [store EXCEPT ![sid] =
                          [chat_history |-> JsonDumps(chat_history),
                           profile_data |-> JsonDumps(profile_data),
                           is_complete |-> BoolToInt(is_complete)]]
                 ELSE store]

\* variant: DELETE without the WHERE clause
delete_row_All(store, sid) ==
    <<>>

delete_row(store, sid) ==
    [s \in DOMAIN store \ {sid} |-> store[s]]

\* variant: deleting a session that is not there is answered with an error
DeleteResponse_NotFound(store, sid) ==
    IF sid \in DOMAIN store THEN [kind |-> "message"] ELSE [kind |-> "error"]

\* return {"message": "Session deleted"}
DeleteResponse(store, sid) ==
    [kind |-> "message"]

\* the entries of the list returned by get_all_sessions
ListResponse(store) ==
    [kind |-> "list",
     sessions |-> { [session_id |-> s, is_complete |-> IntToBool(store[s].is_complete)] :
                       s \in DOMAIN store }]

(***************************************************************************)
(* Fact merge (the loop over extracted.items() in chat).                   *)
(***************************************************************************)
Sentinels ==
    { <<"n","u","l","l">>, <<"n","o","n","e">>, <<>>,
      <<"n","/","a">>, <<"u","n","k","n","o","w","n">> }

\* variant: the sentinel test without lower()
Accepted_CaseSensitive(v) ==
    Truthy(v) /\ Strip(PyStr(v)) \notin Sentinels

\* if v and str(v).strip().lower() not in ("null", "none", "", "n/a", "unknown")
Accepted(v) ==
    Truthy(v) /\ Lower(Strip(PyStr(v))) \notin Sentinels

\* clean_v = str(v).strip()
CleanValue(v) ==
    Strip(PyStr(v))

\* current = session["profile_data"].get(k, "")
CurrentValue(profile, k) ==
    IF k \in DOMAIN profile THEN profile[k] ELSE <<>>

\* variant: ties overwrite as well
ShouldStore_OrEqual(current, clean_v) ==
    current = <<>> \/ Len(clean_v) >= Len(current)

\* if not current or len(clean_v) > len(str(current))
ShouldStore(current, clean_v) ==
    current = <<>> \/ Len(clean_v) > Len(current)

\* variant: the profile is rebuilt from the new fact alone
StoreFact_Alone(profile, k, clean_v) ==
    [x \in {k} |-> clean_v]

\* session["profile_data"][k] = clean_v
StoreFact(profile, k, clean_v) ==
    [x \in DOMAIN profile \cup {k} |-> IF x = k THEN clean_v ELSE profile[x]]

\* variant: every accepted value is appended to what the profile holds
MergeOne_Accumulate(profile, k, v) ==
    IF Accepted(v)
    THEN StoreFact(profile, k, CurrentValue(profile, k) \o CleanValue(v))
    ELSE profile

\* one iteration of the loop
MergeOne(profile, k, v) ==
    IF Accepted(v) /\ ShouldStore(CurrentValue(profile, k), CleanValue(v))
    THEN StoreFact(profile, k, CleanValue(v))
    ELSE profile

\* the loop over the keys ks of the extracted mapping still to be visited;
\* each key is visited once, so the visiting order does not change the result
RECURSIVE MergeKeys(_, _, _)
MergeKeys(profile, extracted, ks) ==
    IF ks = {} THEN profile
    ELSE LET k == CHOOSE x \in ks : TRUE
         IN  MergeKeys(MergeOne(profile, k, extracted[k]), extracted, ks \ {k})

MergeFacts(profile, extracted) ==
    MergeKeys(profile, extracted, DOMAIN extracted)

(***************************************************************************)
(* Progress estimate and completion detector.                              *)
(***************************************************************************)
TargetFacts ==
    18

Min(a, b) ==
    IF a < b THEN a ELSE b

\* variant: rounded to the nearest percent instead of truncated
Progress_Rounded(profile) ==
    Min(100, (Cardinality(DOMAIN profile) * 100 + TargetFacts \div 2) \div TargetFacts)

\* variant: without the cap
Progress_Uncapped(profile) ==
    (Cardinality(DOMAIN profile) * 100) \div TargetFacts

\* min(100, int((profile_keys / 18) * 100)); the float product is an integer
\* only for multiples of 9 keys, where it is exact, so int() is the floor of
\* the exact quotient
Progress(profile) ==
    Min(100, (Cardinality(DOMAIN profile) * 100) \div TargetFacts)

\* variant: the reply is searched as it is, without lower()
HasStopSignal_CaseSensitive(ai_reply) ==
    \E i \in 1..Len(stop_signals) : Contains(ai_reply, stop_signals[i])

\* any(phrase in ai_lower for phrase in stop_signals)
HasStopSignal(ai_reply) ==
    LET ai_lower == Lower(ai_reply)
    IN  \E i \in 1..Len(stop_signals) : Contains(ai_lower, stop_signals[i])

(***************************************************************************)
(* The /chat handler.                                                      *)
(***************************************************************************)
Turn(role, content) ==
    [role |-> role, content |-> content]

ChatResponse(question, is_complete, progress, sid) ==
    [kind |-> "response", question |-> question, is_complete |-> is_complete,
     progress |-> progress, session_id |-> sid]

\* an exception that leaves a handler: the framework answers with an error
UnhandledError ==
    [kind |-> "error"]

\* variant: the exception is not caught
TopLevelExcept_Reraise(sid) ==
    UnhandledError

\* the top-level "except Exception" of chat
TopLevelExcept(sid) ==
    ChatResponse(APOLOGY, FALSE, 0, sid)

\* is_complete parameter default of save_session
DefaultIsComplete ==
    FALSE

\* variant: the session of the failed turn is reset to an empty record
Fallback_Reset(store, sid, called) ==
    [db |-> IF sid \in DOMAIN store THEN [store EXCEPT ![sid] = NewRow] ELSE store,
     resp |-> TopLevelExcept(sid)] @@ called

\* what a turn that ends in the top-level except leaves behind
Fallback(store, sid, called) ==
    [db |-> store, resp |-> TopLevelExcept(sid)] @@ called

\* variant: the greeting starts the transcript afresh
GreetingHistory_Afresh(chat_history, message) ==
    <<[role |-> "assistant", content |-> GREETING]>>

\* variant: the inbound message is recorded before the greeting
GreetingHistory_WithUser(chat_history, message) ==
    Append(IF Strip(message) # <<>>
           THEN Append(chat_history, [role |-> "user", content |-> message])
           ELSE chat_history,
           [role |-> "assistant", content |-> GREETING])

\* transcript persisted by the first-message branch
GreetingHistory(chat_history, message) ==
    Append(chat_history, Turn("assistant", GREETING))

\* the branch "if request.is_first_message"
FirstMessageBranch(store, session, sid, message, saveIO) ==
    LET hist  == GreetingHistory(session.chat_history, message)
        saved == save_session(store, sid, session.profile_data, hist,
                              DefaultIsComplete, saveIO)
        called == [extraction |-> NotCalled, generation |-> NotCalled,
                   save |-> saveIO]
    IN  IF saved.raised THEN Fallback(store, sid, called)
        ELSE [db |-> saved.db,
              resp |-> ChatResponse(GREETING, FALSE, 0, sid)] @@ called

\* extracted after the try/except around the extraction call and json.loads
Extracted(ext) ==
    IF ext.kind = "json" THEN ext.value ELSE JObj(<<>>)

\* ai_reply after the try/except around the generation call
AiReply(gen) ==
    IF gen.kind = "text" THEN Strip(gen.text) ELSE APOLOGY

\* variant: the flag is recomputed from the reply of this turn alone
CompleteAfter_Recomputed(is_complete, ai_reply) ==
    HasStopSignal(ai_reply)

\* session["is_complete"] after the stop-signal test
CompleteAfter(is_complete, ai_reply) ==
    IF HasStopSignal(ai_reply) THEN TRUE ELSE is_complete

\* variant: the message is tested without being stripped
HasText_Unstripped(message) ==
    message # <<>>

\* the guard "if request.message.strip()"
HasText(message) ==
    Strip(message) # <<>>

\* the rest of the handler for a turn that is not flagged first-message
NormalBranch(store, session, sid, message, ext, gen, saveIO) ==
    LET nonEmpty  == HasText(message)
        hist1     == IF nonEmpty
                     THEN Append(session.chat_history, Turn("user", message))
                     ELSE session.chat_history
        extCall   == IF nonEmpty THEN ext ELSE NotCalled
        extracted == IF nonEmpty THEN Extracted(ext) ELSE JObj(<<>>)
    IN  IF extracted.t # "obj"
        THEN \* extracted.items() raises AttributeError
             Fallback(store, sid, [extraction |-> extCall,
                                   generation |-> NotCalled,
                                   save |-> "not_called"])
        ELSE
        LET profile  == MergeFacts(session.profile_data, extracted.d)
            progress == Progress(profile)
            ai_reply == AiReply(gen)
            complete == CompleteAfter(session.is_complete, ai_reply)
            hist2    == Append(hist1, Turn("assistant", ai_reply))
            saved    == save_session(store, sid, profile, hist2, complete, saveIO)
            called   == [extraction |-> extCall, generation |-> gen,
                         save |-> saveIO]
        IN  IF saved.raised THEN Fallback(store, sid, called)
            ELSE [db |-> saved.db,
                  resp |-> ChatResponse(ai_reply, complete, progress, sid)]
                 @@ called

\* the whole handler: new store, response, and the calls it made
chat(store, sid, message, is_first_message, loadIO, ext, gen, saveIO) ==
    LET got == get_session(store, sid, loadIO)
    IN  IF got.raised
        THEN Fallback(store, sid, [extraction |-> NotCalled,
                                   generation |-> NotCalled,
                                   save |-> "not_called"])
        ELSE IF is_first_message
        THEN FirstMessageBranch(got.db, got.session, sid, message, saveIO)
        ELSE NormalBranch(got.db, got.session, sid, message, ext, gen, saveIO)

(***************************************************************************)
(* State machine.  db is the sessions table.  last is the request being    *)
(* answered: its inputs, the row of its session before the handler ran,    *)
(* the external calls the handler made and its response; it is "idle"      *)
(* once the response has been sent.  The handlers are async functions      *)
(* without an await, so the server process runs them one at a time and     *)
(* takes the next request after the response of the previous one.          *)
(* pending and solo belong to the deployment with several server           *)
(* processes on one profiles.db (below) and do not change here.            *)
(***************************************************************************)
IOOutcomes ==
    {"ok", "fault"}

Transcript(store, sid) ==
    JsonLoads(store[sid].chat_history)

Profile(store, sid) ==
    JsonLoads(store[sid].profile_data)

Complete(store, sid) ==
    IntToBool(store[sid].is_complete)

HistLen(store, sid) ==
    IF sid \in DOMAIN store THEN Len(Transcript(store, sid)) ELSE 0

Idle ==
    [op |-> "idle"]

Init ==
    /\ db = init_db(<<>>)
    /\ last = Idle
    /\ pending = [w \in Workers |-> [pc |-> "idle"]]
    /\ solo = [s \in ConcSessions |-> Absent]

\* POST /chat
Chat(sid, message, is_first_message, loadIO, ext, gen, saveIO) ==
    /\ last = Idle
    /\ HistLen(db, sid) <= MaxHist
    /\ LET r == chat(db, sid, message, is_first_message, loadIO, ext, gen, saveIO)
       IN  /\ db' = r.db
           /\ last' = [op |-> "chat", sid |-> sid, message |-> message,
                       is_first_message |-> is_first_message,
                       load |-> loadIO, extraction |-> r.extraction,
                       generation |-> r.generation, save |-> r.save,
                       before |-> RowOf(db, sid), resp |-> r.resp]
    /\ UNCHANGED <<pending, solo>>

\* GET /session/{session_id}
get_session_data(sid, loadIO) ==
    /\ last = Idle
    /\ LET got == get_session(db, sid, loadIO)
       IN  /\ db' = got.db
           /\ last' = [op |-> "fetch", sid |-> sid, load |-> loadIO,
                       before |-> RowOf(db, sid),
                       resp |-> IF got.raised THEN UnhandledError
                                ELSE [kind |-> "session", session |-> got.session]]
    /\ UNCHANGED <<pending, solo>>

\* DELETE /session/{session_id}
delete_session(sid) ==
    /\ last = Idle
    /\ db' = delete_row(db, sid)
    /\ last' = [op |-> "delete", sid |-> sid, before |-> RowOf(db, sid),
                resp |-> DeleteResponse(db, sid)]
    /\ UNCHANGED <<pending, solo>>

\* GET /sessions (the rows come ordered by created_at, which is not modelled;
\* the response is kept as the set of its entries)
get_all_sessions ==
    /\ last = Idle
    /\ db' = db
    /\ last' = [op |-> "list", resp |-> ListResponse(db)]
    /\ UNCHANGED <<pending, solo>>

\* the process is started again: the module body runs init_db()
Restart ==
    /\ last = Idle
    /\ db' = init_db(db)
    /\ last' = [op |-> "restart", store_before |-> db]
    /\ UNCHANGED <<pending, solo>>

\* the response is sent and the server takes the next request
SendResponse ==
    /\ last # Idle
    /\ last' = Idle
    /\ UNCHANGED <<db, pending, solo>>

\* The outcome of a call that a turn does not make cannot matter: such an
\* input is enumerated with one representative value only.
ExtractionChoices(message, first, loadIO) ==
    IF loadIO = "fault" \/ first \/ Strip(message) = <<>>
    THEN {[kind |-> "fault"]} ELSE ExtractionOutcomes

GenerationChoices(first, loadIO, ext) ==
    IF loadIO = "fault" \/ first \/ (ext.kind = "json" /\ ext.value.t # "obj")
    THEN {[kind |-> "fault"]} ELSE GenerationOutcomes

SaveChoices(loadIO, ext) ==
    IF loadIO = "fault" \/ (ext.kind = "json" /\ ext.value.t # "obj")
    THEN {"ok"} ELSE IOOutcomes

Next ==
    \/ \E sid \in SessionIds, message \in Messages, first \in BOOLEAN,
          loadIO \in IOOutcomes :
          \E ext \in ExtractionChoices(message, first, loadIO) :
          \E gen \in GenerationChoices(first, loadIO, ext),
             saveIO \in SaveChoices(loadIO, ext) :
             Chat(sid, message, first, loadIO, ext, gen, saveIO)
    \/ \E sid \in SessionIds, loadIO \in IOOutcomes : get_session_data(sid, loadIO)
    \/ \E sid \in SessionIds : delete_session(sid)
    \/ get_all_sessions
    \/ Restart
    \/ SendResponse

Spec ==
    Init /\ [][Next]_vars

(***************************************************************************)
(* Progress over profile sizes: a session whose profile already holds n    *)
(* facts (n up to MaxKeys, past the target of 18) receives non-first       *)
(* turns whose extraction adds up to MaxNewFacts facts.                    *)
(***************************************************************************)
\* largest profile a session starts with
MaxKeys ==
    19

\* most facts one extraction adds
MaxNewFacts ==
    3

FactNames ==
    <<"f01","f02","f03","f04","f05","f06","f07","f08","f09","f10","f11","f12","f13","f14",
      "f15","f16","f17","f18","f19","f20","f21","f22","f23","f24","f25","f26">>

\* a profile holding the first n fact names
ProfileOfSize(n) ==
    [k \in {FactNames[i] : i \in 1..n} |-> <<"x">>]

\* a mapping of the j fact names after the first n
NewFacts(n, j) ==
    [k \in {FactNames[i] : i \in (n + 1)..(n + j)} |-> JStr(<<" ","y"," ">>)]

\* what the extraction service may return to a session holding n facts
ProgressExtractions(n) ==
    { [kind |-> "json", value |-> JObj(NewFacts(n, j))] :
         j \in {i \in 0..MaxNewFacts : n + i <= Len(FactNames)} }
    \cup { [kind |-> "json", value |-> JList] }

InitProgress ==
    /\ db \in { [s \in {"s1"} |->
                   [chat_history |-> JsonDumps(<<>>),
                    profile_data |-> JsonDumps(ProfileOfSize(n)),
                    is_complete |-> 0]] : n \in 0..MaxKeys }
    /\ last = Idle
    /\ pending = [w \in Workers |-> [pc |-> "idle"]]
    /\ solo = [s \in ConcSessions |-> Absent]

NextProgress ==
    \/ \E ext \in ProgressExtractions(Cardinality(DOMAIN Profile(db, "s1"))) :
          \E gen \in GenerationChoices(FALSE, "ok", ext),
             saveIO \in SaveChoices("ok", ext) :
             Chat("s1", <<"h","i"," ">>, FALSE, "ok", ext, gen, saveIO)
    \/ SendResponse

SpecProgress ==
    InitProgress /\ [][NextProgress]_vars

(***************************************************************************)
(* Completion detection over the whole stop-signal list: non-first turns   *)
(* whose reply holds one of the fifteen phrases in some casing, holds a    *)
(* near miss, or is the generation fault.                                  *)
(***************************************************************************)
\* one reply per stop signal, in upper, title or sentence case
SignalTexts ==
    { <<"O","k","."," ","I"," ","T","H","I","N","K"," ","I"," ","H",
        "A","V","E"," ","A"," ","G","O","O","D"," ","P","I","C","T",
        "U","R","E"," ","N","O","W","!">>,
      <<" ","I"," ","T","h","i","n","k"," ","I"," ","H","a","v","e",
        " ","A"," ","G","o","o","d"," ","S","e","n","s","e"," ","-",
        " ","s","o","?","\n">>,
      <<"O","k","."," ","I"," ","f","e","e","l"," ","l","i","k","e",
        " ","i"," ","u","n","d","e","r","s","t","a","n","d"," ","y",
        "o","u"," ","w","e","l","l","!">>,
      <<" ","I","'","V","E"," ","G","O","T"," ","A"," ","S","O","L",
        "I","D"," ","S","E","N","S","E"," ","O","F"," ","W","H","E",
        "R","E"," ","Y","O","U","'","R","E"," ","A","T"," ","-"," ",
        "s","o","?","\n">>,
      <<"O","k","."," ","R","e","a","d","y"," ","T","o"," ","T","a",
        "l","k"," ","A","b","o","u","t"," ","A"," ","P","l","a","n",
        "!">>,
      <<" ","R","e","a","d","y"," ","t","o"," ","t","a","l","k"," ",
        "a","b","o","u","t"," ","n","e","x","t"," ","s","t","e","p",
        "s"," ","-"," ","s","o","?","\n">>,
      <<"O","k","."," ","T","H","I","N","K"," ","W","E"," ","H","A",
        "V","E"," ","E","N","O","U","G","H"," ","T","O"," ","S","T",
        "A","R","T","!">>,
      <<" ","G","o","t"," ","A"," ","G","o","o","d"," ","U","n","d",
        "e","r","s","t","a","n","d","i","n","g"," ","N","o","w"," ",
        "-"," ","s","o","?","\n">>,
      <<"O","k","."," ","I"," ","t","h","i","n","k"," ","t","h","a",
        "t","'","s"," ","a","l","l"," ","i"," ","n","e","e","d","!">>,
      <<" ","W","E","'","V","E"," ","C","O","V","E","R","E","D"," ",
        "T","H","E"," ","M","A","I","N"," ","T","H","I","N","G","S",
        " ","-"," ","s","o","?","\n">>,
      <<"O","k","."," ","R","e","a","d","y"," ","T","o"," ","M","o",
        "v","e"," ","F","o","r","w","a","r","d","!">>,
      <<" ","H","a","v","e"," ","a"," ","g","o","o","d"," ","s","e",
        "n","s","e"," ","o","f"," ","y","o","u","r"," ","b","a","c",
        "k","g","r","o","u","n","d"," ","-"," ","s","o","?","\n">>,
      <<"O","k","."," ","R","E","A","D","Y"," ","T","O"," ","D","I",
        "S","C","U","S","S","!">>,
      <<" ","I"," ","T","h","i","n","k"," ","W","e","'","R","e"," ",
        "G","o","o","d"," ","T","o"," ","G","o"," ","-"," ","s","o",
        "?","\n">>,
      <<"O","k","."," ","I"," ","h","a","v","e"," ","a"," ","p","r",
        "e","t","t","y"," ","c","o","m","p","l","e","t","e"," ","p",
        "i","c","t","u","r","e","!">> }

\* replies without a stop signal
PlainTexts ==
    { <<" ","M","a","j","o","r","?"," ">>,
      <<"R","e","a","d","y"," ","t","o"," ","m","o","v","e"," ","o","n">> }

SignalGenerations ==
    { [kind |-> "text", text |-> x] : x \in SignalTexts \cup PlainTexts }
    \cup { [kind |-> "fault"] }

NextSignals ==
    \/ \E gen \in SignalGenerations, saveIO \in IOOutcomes :
          Chat("s1", <<"h","i"," ">>, FALSE, "ok", [kind |-> "fault"], gen, saveIO)
    \/ SendResponse

SpecSignals ==
    Init /\ [][NextSignals]_vars

(***************************************************************************)
(* Several server processes on one profiles.db.  Within one process a      *)
(* handler runs to its end before the next starts, but the processes share *)
(* only the database file: between the get_session of a turn in one        *)
(* process and its save_session (the two model calls lie in between) the   *)
(* other process may run statements of its own.  pending[w] is what        *)
(* process w is doing: idle, a chat turn that has loaded its session, or a *)
(* finished request whose response has not been sent.  solo[s] is the row  *)
(* session s would have if the same requests for s had run against a       *)
(* store holding no other session.  Storage faults are those of Spec and   *)
(* are left out here.                                                      *)
(***************************************************************************)
ConcMessages ==
    { <<"h","i"," ">> }

ConcExtractions ==
    { [kind |-> "fault"],
      [kind |-> "json", value |-> JObj([k \in {"city"} |-> JStr(<<"L","H","R">>)])],
      [kind |-> "json", value |-> JObj([k \in {"name"} |-> JStr(<<"A","l">>)])] }

ConcGenerations ==
    { [kind |-> "text", text |-> <<" ","M","a","j","o","r","?"," ">>],
      [kind |-> "text", text |-> <<"R","e","a","d","y"," ","t","o"," ",
                                   "d","i","s","c","u","s","s","\n">>] }

\* the store that holds session s as it would be on its own
SoloStore(s) ==
    IF solo[s] = Absent THEN <<>> ELSE [x \in {s} |-> solo[s]]

\* the row a loaded session was read from
RowOfSession(session) ==
    [chat_history |-> JsonDumps(session.chat_history),
     profile_data |-> JsonDumps(session.profile_data),
     is_complete |-> BoolToInt(session.is_complete)]

\* the part of chat after get_session
AfterLoad(store, session, sid, message, is_first_message, ext, gen, saveIO) ==
    IF is_first_message
    THEN FirstMessageBranch(store, session, sid, message, saveIO)
    ELSE NormalBranch(store, session, sid, message, ext, gen, saveIO)

\* POST /chat in process w, up to and including get_session
ChatLoad(w, sid, message, is_first_message) ==
    /\ pending[w].pc = "idle"
    /\ HistLen(db, sid) <= MaxHist
    /\ LET got == get_session(db, sid, "ok")
       IN  /\ db' = got.db
           /\ pending' = [pending EXCEPT ![w] =
                            [pc |-> "loaded", sid |-> sid, message |-> message,
                             is_first_message |-> is_first_message,
                             session |-> got.session]]
    /\ solo' = [solo EXCEPT ![sid] =
                   RowOf(get_session(SoloStore(sid), sid, "ok").db, sid)]
    /\ UNCHANGED last

\* POST /chat in process w, from the model calls to the response
ChatFinish(w, ext, gen) ==
    /\ pending[w].pc = "loaded"
    /\ LET p == pending[w]
           r == AfterLoad(db, p.session, p.sid, p.message,
                          p.is_first_message, ext, gen, "ok")
           alone == AfterLoad(SoloStore(p.sid), p.session, p.sid, p.message,
                              p.is_first_message, ext, gen, "ok")
       IN  /\ db' = r.db
           /\ pending' = [pending EXCEPT ![w] =
                            [pc |-> "done", op |-> "chat", sid |-> p.sid,
                             message |-> p.message,
                             is_first_message |-> p.is_first_message,
                             extraction |-> r.extraction,
                             stale |-> RowOf(db, p.sid) # RowOfSession(p.session),
                             found |-> p.sid \in DOMAIN db,
                             resp |-> r.resp]]
           /\ solo' = [solo EXCEPT ![p.sid] = RowOf(alone.db, p.sid)]
    /\ UNCHANGED last

\* GET /session/{session_id} in process w
FetchBy(w, sid) ==
    /\ pending[w].pc = "idle"
    /\ LET got == get_session(db, sid, "ok")
       IN  /\ db' = got.db
           /\ pending' = [pending EXCEPT ![w] =
                            [pc |-> "done", op |-> "fetch", sid |-> sid,
                             resp |-> [kind |-> "session", session |-> got.session]]]
    /\ solo' = [solo EXCEPT ![sid] =
                   RowOf(get_session(SoloStore(sid), sid, "ok").db, sid)]
    /\ UNCHANGED last

\* DELETE /session/{session_id} in process w
DeleteBy(w, sid) ==
    /\ pending[w].pc = "idle"
    /\ db' = delete_row(db, sid)
    /\ pending' = [pending EXCEPT ![w] =
                     [pc |-> "done", op |-> "delete", sid |-> sid,
                      resp |-> DeleteResponse(db, sid)]]
    /\ solo' = [solo EXCEPT ![sid] = RowOf(delete_row(SoloStore(sid), sid), sid)]
    /\ UNCHANGED last

\* GET /sessions in process w
ListBy(w) ==
    /\ pending[w].pc = "idle"
    /\ pending' = [pending EXCEPT ![w] =
                     [pc |-> "done", op |-> "list", resp |-> ListResponse(db)]]
    /\ UNCHANGED <<db, last, solo>>

\* process w sends its response and is free for the next request
Respond(w) ==
    /\ pending[w].pc = "done"
    /\ pending' = [pending EXCEPT ![w] = [pc |-> "idle"]]
    /\ UNCHANGED <<db, last, solo>>

\* one session served by two processes
NextConc ==
    \/ \E w \in Workers, message \in ConcMessages, first \in BOOLEAN :
          ChatLoad(w, "s1", message, first)
    \/ \E w \in Workers :
          \E ext \in IF pending[w].pc = "loaded" /\ ~pending[w].is_first_message
                     THEN ConcExtractions ELSE {[kind |-> "fault"]} :
          \E gen \in IF pending[w].pc = "loaded" /\ ~pending[w].is_first_message
                     THEN ConcGenerations ELSE {[kind |-> "fault"]} :
             ChatFinish(w, ext, gen)
    \/ \E w \in Workers : FetchBy(w, "s1")
    \/ \E w \in Workers : DeleteBy(w, "s1")
    \/ \E w \in Workers : ListBy(w)
    \/ \E w \in Workers : Respond(w)

SpecConc ==
    Init /\ [][NextConc]_vars

\* two sessions served by two processes, one extraction and one reply each
NextTwo ==
    \/ \E w \in Workers, sid \in ConcSessions :
          ChatLoad(w, sid, <<"h","i"," ">>, FALSE)
    \/ \E w \in Workers :
          ChatFinish(w,
             [kind |-> "json", value |-> JObj([k \in {"city"} |-> JStr(<<"L","H","R">>)])],
             [kind |-> "text", text |-> <<"R","e","a","d","y"," ","t","o"," ",
                                          "d","i","s","c","u","s","s","\n">>])
    \/ \E w \in Workers, sid \in ConcSessions : FetchBy(w, sid)
    \/ \E w \in Workers, sid \in ConcSessions : DeleteBy(w, sid)
    \/ \E w \in Workers : ListBy(w)
    \/ \E w \in Workers : Respond(w)

SpecTwo ==
    Init /\ [][NextTwo]_vars

(***************************************************************************)
(* Vocabulary of the properties: the turn just served and the persisted    *)
(* state of its session before and after the handler ran.                  *)
(***************************************************************************)
ChatServed ==
    last.op = "chat"

\* the turn met a storage fault in its load or in its save
StorageFaulted ==
    last.load = "fault" \/ last.save = "fault"

ExistedBefore ==
    last.before # Absent

TranscriptBefore ==
    IF ExistedBefore THEN JsonLoads(last.before.chat_history) ELSE <<>>

ProfileBefore ==
    IF ExistedBefore THEN JsonLoads(last.before.profile_data) ELSE <<>>

CompleteBefore ==
    ExistedBefore /\ IntToBool(last.before.is_complete)

ExistsAfter ==
    last.sid \in DOMAIN db

TranscriptAfter ==
    IF ExistsAfter THEN Transcript(db, last.sid) ELSE <<>>

ProfileAfter ==
    IF ExistsAfter THEN Profile(db, last.sid) ELSE <<>>

IsPrefix(s, t) ==
    Len(s) <= Len(t) /\ SubSeq(t, 1, Len(s)) = s

IsText(x) ==
    DOMAIN x = 1..Len(x)

\* the fallback response: apology, is_complete=false, progress=0
IsFallbackResponse(resp, sid) ==
    resp = [kind |-> "response", question |-> APOLOGY, is_complete |-> FALSE,
            progress |-> 0, session_id |-> sid]

\* the extraction service answered with JSON that is not a mapping
ExtractedNonMapping ==
    last.extraction.kind = "json" /\ last.extraction.value.t # "obj"

\* the extraction service answered with a mapping
ExtractedMapping ==
    last.extraction.kind = "json" /\ last.extraction.value.t = "obj"

(***************************************************************************)
(* C1 - Completion monotonicity: a chat turn of any kind on a session      *)
(* whose persisted complete flag is true leaves the persisted flag true.   *)
(* Stated as the claim states it; the first-message branch saves without   *)
(* passing is_complete and so writes the default False.                    *)
(***************************************************************************)
C1_CompleteNeverReverts ==
    (ChatServed /\ CompleteBefore) => (ExistsAfter /\ Complete(db, last.sid))

(***************************************************************************)
(* C2 - Durability: after a restart of the process every session that was  *)
(* in the store is still there with the same transcript, profile and       *)
(* complete flag.  Stated as the claim states it; init_db drops the table. *)
(***************************************************************************)
C2_SessionsSurviveRestart ==
    last.op = "restart" =>
        \A s \in DOMAIN last.store_before :
            s \in DOMAIN db /\ db[s] = last.store_before[s]

(***************************************************************************)
(* C3 - Every chat turn answers with a well-formed response (question,     *)
(* is_complete, progress, session_id), never with an unhandled fault; a    *)
(* turn that met a storage fault or a fault while merging answers with     *)
(* the fallback response (apology, is_complete=false, progress=0).         *)
(***************************************************************************)
C3_AlwaysWellFormedResponse ==
    ChatServed =>
        /\ last.resp.kind = "response"
        /\ IsText(last.resp.question)
        /\ last.resp.is_complete \in BOOLEAN
        /\ last.resp.progress \in 0..100
        /\ last.resp.session_id = last.sid
        /\ (StorageFaulted \/ ExtractedNonMapping)
              => IsFallbackResponse(last.resp, last.sid)

\* a turn that had obtained its reply and then faulted in the save was
\* answered with the fallback response
C3_Witness ==
    /\ ChatServed
    /\ last.save = "fault"
    /\ last.generation.kind = "text"
    /\ IsFallbackResponse(last.resp, last.sid)

(***************************************************************************)
(* C4 - A storage fault in the load or the save of a chat turn reaches the *)
(* caller as a failure, not as a response of the normal shape.  Stated as  *)
(* the claim states it; the top-level except turns it into the fallback    *)
(* response.                                                               *)
(***************************************************************************)
C4_StorageFaultPropagates ==
    (ChatServed /\ StorageFaulted) => last.resp.kind = "error"

(***************************************************************************)
(* C5 - Extraction problems never fail the turn: on a non-first turn with  *)
(* a non-empty message and a working store, if the extraction service      *)
(* faults, returns non-JSON text or returns JSON that is not a mapping,    *)
(* the profile is unchanged, generation is invoked, and the user turn and  *)
(* the assistant reply are appended and persisted.  Stated as the claim    *)
(* states it; a JSON list or scalar makes extracted.items() raise.         *)
(***************************************************************************)
C5_ExtractionNeverFailsTurn ==
    ( /\ ChatServed
      /\ ~last.is_first_message
      /\ Strip(last.message) # <<>>
      /\ last.load = "ok"
      /\ last.save # "fault"
      /\ last.extraction.kind \in {"fault", "nonjson", "json"}
      /\ ~ExtractedMapping )
    =>
    ( /\ last.generation # NotCalled
      /\ ExistsAfter
      /\ ProfileAfter = ProfileBefore
      /\ Len(TranscriptAfter) = Len(TranscriptBefore) + 2
      /\ IsPrefix(TranscriptBefore, TranscriptAfter)
      /\ TranscriptAfter[Len(TranscriptBefore) + 1]
            = [role |-> "user", content |-> last.message]
      /\ TranscriptAfter[Len(TranscriptAfter)].role = "assistant"
      /\ TranscriptAfter[Len(TranscriptAfter)].content = last.resp.question )

(***************************************************************************)
(* C6 - First-message short-circuit: every turn flagged is_first_message,  *)
(* on any session state, invokes neither the extraction nor the generation *)
(* service, answers with progress=0 and is_complete=false and leaves the   *)
(* profile unchanged; with a working store it answers the fixed greeting   *)
(* and appends exactly one turn, the assistant greeting, and no user turn  *)
(* even if the message is non-empty.  (A flagged turn whose load or save   *)
(* faults is answered as C3 states, and appends nothing.)                  *)
(***************************************************************************)
C6_FirstMessageShortCircuit ==
    (ChatServed /\ last.is_first_message) =>
        /\ last.extraction = NotCalled
        /\ last.generation = NotCalled
        /\ last.resp.kind = "response"
        /\ last.resp.progress = 0
        /\ last.resp.is_complete = FALSE
        /\ ProfileAfter = ProfileBefore
        /\ ~StorageFaulted =>
              /\ last.resp.question = GREETING
              /\ TranscriptAfter = Append(TranscriptBefore,
                                     [role |-> "assistant", content |-> GREETING])
        /\ StorageFaulted =>
              /\ IsFallbackResponse(last.resp, last.sid)
              /\ TranscriptAfter = TranscriptBefore

\* a flagged turn with a non-empty message on a session that already had a
\* transcript and a profile was answered with the greeting
C6_Witness ==
    /\ ChatServed
    /\ last.is_first_message
    /\ ~StorageFaulted
    /\ Strip(last.message) # <<>>
    /\ Len(TranscriptBefore) >= 2
    /\ DOMAIN ProfileBefore # {}
    /\ last.resp.question = GREETING
    /\ Len(TranscriptAfter) = Len(TranscriptBefore) + 1

(***************************************************************************)
(* C7 - Overwrite only if longer: when a turn merges a mapping, for every  *)
(* key with an accepted value v (trimmed), a key absent from the profile   *)
(* is inserted with v, and a key present is set to v if v has strictly     *)
(* more characters than the stored value and keeps the stored value if v   *)
(* is of equal length or shorter.                                          *)
(***************************************************************************)
C7_OverwriteOnlyIfLonger ==
    (ChatServed /\ ExtractedMapping /\ last.save = "ok") =>
        \A k \in DOMAIN last.extraction.value.d :
            LET raw == last.extraction.value.d[k]
                v   == Strip(PyStr(raw))
            IN  (Truthy(raw) /\ Lower(v) \notin Sentinels) =>
                    /\ k \in DOMAIN ProfileAfter
                    /\ IF k \notin DOMAIN ProfileBefore
                       THEN ProfileAfter[k] = v
                       ELSE IF Len(v) > Len(ProfileBefore[k])
                       THEN ProfileAfter[k] = v
                       ELSE ProfileAfter[k] = ProfileBefore[k]

\* "LHR" was stored and the candidate "Lahore" replaced it
C7_Witness ==
    /\ ChatServed
    /\ ExtractedMapping
    /\ last.save = "ok"
    /\ "city" \in DOMAIN ProfileBefore
    /\ "city" \in DOMAIN last.extraction.value.d
    /\ ProfileBefore["city"] = <<"L","H","R">>
    /\ last.extraction.value.d["city"] = JStr(<<"L","a","h","o","r","e">>)
    /\ ProfileAfter["city"] = <<"L","a","h","o","r","e">>

(***************************************************************************)
(* C8 - Sentinel rejection: no stored profile value is empty or, trimmed   *)
(* and lower-cased, one of null, none, n/a, unknown; and a candidate       *)
(* whose value is such a string, in any casing and with any surrounding    *)
(* whitespace, neither inserts its key nor overwrites the stored value.    *)
(***************************************************************************)
C8_SentinelRejection ==
    /\ \A s \in DOMAIN db : \A k \in DOMAIN Profile(db, s) :
          Lower(Strip(Profile(db, s)[k])) \notin
              { <<>>, <<"n","u","l","l">>, <<"n","o","n","e">>,
                <<"n","/","a">>, <<"u","n","k","n","o","w","n">> }
    /\ (ChatServed /\ ExtractedMapping) =>
          \A k \in DOMAIN last.extraction.value.d :
              LET raw == last.extraction.value.d[k]
              IN  (raw.t = "str" /\ Lower(Strip(raw.s)) \in
                      { <<>>, <<"n","u","l","l">>, <<"n","o","n","e">>,
                        <<"n","/","a">>, <<"u","n","k","n","o","w","n">> })
                  => /\ (k \in DOMAIN ProfileAfter) = (k \in DOMAIN ProfileBefore)
                     /\ k \in DOMAIN ProfileBefore
                           => ProfileAfter[k] = ProfileBefore[k]

\* " N/A " (longer than the stored "LHR") and "\tunknown " (for a key not
\* in the profile) were offered and the profile kept "LHR" and no name
C8_Witness ==
    /\ ChatServed
    /\ ExtractedMapping
    /\ last.save = "ok"
    /\ DOMAIN last.extraction.value.d = {"city", "name"}
    /\ last.extraction.value.d["city"] = JStr(<<" ","N","/","A"," ">>)
    /\ last.extraction.value.d["name"] = JStr(<<"\t","u","n","k","n","o","w","n"," ">>)
    /\ DOMAIN ProfileBefore = {"city"}
    /\ ProfileBefore["city"] = <<"L","H","R">>
    /\ ProfileAfter = ProfileBefore

(***************************************************************************)
(* C9 - The transcript is append-only: after every chat turn (first-       *)
(* message, normal, empty-message, faulting) the persisted transcript of   *)
(* the session has the transcript persisted before the turn as a prefix,   *)
(* and a session that existed before the turn still exists.                *)
(***************************************************************************)
C9_TranscriptAppendOnly ==
    ChatServed =>
        /\ ExistedBefore => ExistsAfter
        /\ IsPrefix(TranscriptBefore, TranscriptAfter)

\* a turn extended a transcript that already held two turns
C9_Witness ==
    /\ ChatServed
    /\ Len(TranscriptBefore) >= 2
    /\ Len(TranscriptAfter) > Len(TranscriptBefore)
    /\ IsPrefix(TranscriptBefore, TranscriptAfter)

(***************************************************************************)
(* C10 - The profile's key set only grows: after every chat turn every key *)
(* of the profile persisted before the turn is still a key of the          *)
(* persisted profile, so the number of keys never decreases.               *)
(***************************************************************************)
C10_ProfileKeysGrow ==
    ChatServed =>
        /\ ExistedBefore => ExistsAfter
        /\ DOMAIN ProfileBefore \subseteq DOMAIN ProfileAfter
        /\ Cardinality(DOMAIN ProfileBefore) <= Cardinality(DOMAIN ProfileAfter)

\* a turn added the key name to a profile that held city, and city stayed
C10_Witness ==
    /\ ChatServed
    /\ DOMAIN ProfileBefore = {"city"}
    /\ DOMAIN ProfileAfter = {"city", "name"}

(***************************************************************************)
(* Vocabulary of the progress properties.                                  *)
(***************************************************************************)
\* a turn not flagged first-message that did not end in the fallback
NormalTurnServed ==
    /\ ChatServed
    /\ ~last.is_first_message
    /\ ~StorageFaulted
    /\ ~ExtractedNonMapping

KeysBefore ==
    Cardinality(DOMAIN ProfileBefore)

KeysAfter ==
    Cardinality(DOMAIN ProfileAfter)

\* p = floor(min(100, n * 100 / 18)), without division
IsFloorPercent(p, n) ==
    /\ p \in 0..100
    /\ IF n >= 18 THEN p = 100
       ELSE 18 * p <= 100 * n /\ 100 * n < 18 * (p + 1)

(***************************************************************************)
(* C11 - The progress a non-first turn that does not fall back reports is  *)
(* computed from the profile after that turn's merge and equals            *)
(* floor(min(100, key_count * 100 / 18)) for every key count; a profile    *)
(* of exactly 3 keys after the merge yields 16.                            *)
(***************************************************************************)
C11_ProgressFromMergedProfile ==
    NormalTurnServed =>
        /\ IsFloorPercent(last.resp.progress, KeysAfter)
        /\ KeysAfter = 3 => last.resp.progress = 16

\* a turn whose merge took the profile from 1 key to 3 reported 16
C11_Witness ==
    /\ NormalTurnServed
    /\ KeysBefore = 1
    /\ KeysAfter = 3
    /\ last.resp.progress = 16

(***************************************************************************)
(* C12 - Progress as a function of the profile's key count is always       *)
(* within [0, 100], does not decrease when the key count increases, is 0   *)
(* for an empty profile and is 100 for every key count of 18 or more.      *)
(***************************************************************************)
C12_ProgressBoundedMonotone ==
    NormalTurnServed =>
        /\ last.resp.progress >= 0
        /\ last.resp.progress <= 100
        /\ KeysAfter = 0 => last.resp.progress = 0
        /\ KeysAfter >= 18 => last.resp.progress = 100
        /\ KeysBefore = 0 => Progress(ProfileBefore) = 0
        /\ KeysBefore <= KeysAfter => Progress(ProfileBefore) <= last.resp.progress

\* a merge took the profile from 17 keys past the target to 20 and the
\* reported progress went from 94 to 100
C12_Witness ==
    /\ NormalTurnServed
    /\ KeysBefore = 17
    /\ KeysAfter = 20
    /\ Progress(ProfileBefore) = 94
    /\ last.resp.progress = 100

(***************************************************************************)
(* C13 - Generation faults never fail the turn: when the generation        *)
(* service faults on a non-first turn the reply is the fixed apology; it   *)
(* is appended as the assistant turn after the user turn, the merged       *)
(* profile is persisted, the complete flag keeps the value it had before   *)
(* the turn, and the response carries the progress computed from the       *)
(* profile.  (If the save then faults, the turn is answered as C3 states   *)
(* and nothing is persisted.)                                              *)
(***************************************************************************)
C13_GenerationFaultRecovered ==
    (ChatServed /\ ~last.is_first_message /\ last.generation.kind = "fault") =>
        /\ last.resp.kind = "response"
        /\ last.resp.question = APOLOGY
        /\ last.save = "ok" =>
              /\ TranscriptAfter =
                    Append(IF Strip(last.message) # <<>>
                           THEN Append(TranscriptBefore,
                                       [role |-> "user", content |-> last.message])
                           ELSE TranscriptBefore,
                           [role |-> "assistant", content |-> APOLOGY])
              /\ DOMAIN ProfileBefore \subseteq DOMAIN ProfileAfter
              /\ ExtractedMapping =>
                    \A k \in DOMAIN last.extraction.value.d :
                        LET raw == last.extraction.value.d[k]
                        IN  (Truthy(raw) /\ Lower(Strip(PyStr(raw))) \notin Sentinels
                                /\ k \notin DOMAIN ProfileBefore)
                            => /\ k \in DOMAIN ProfileAfter
                               /\ ProfileAfter[k] = Strip(PyStr(raw))
              /\ ~ExtractedMapping => ProfileAfter = ProfileBefore
              /\ Complete(db, last.sid) = CompleteBefore
              /\ last.resp.is_complete = CompleteBefore
              /\ IsFloorPercent(last.resp.progress, KeysAfter)
        /\ last.save = "fault" =>
              /\ IsFallbackResponse(last.resp, last.sid)
              /\ TranscriptAfter = TranscriptBefore
              /\ ProfileAfter = ProfileBefore

\* generation faulted on a turn of a session that was complete; the turn
\* merged a new fact, kept complete=true and reported progress 5
C13_Witness ==
    /\ ChatServed
    /\ ~last.is_first_message
    /\ last.generation.kind = "fault"
    /\ last.save = "ok"
    /\ Strip(last.message) # <<>>
    /\ CompleteBefore
    /\ Complete(db, last.sid)
    /\ KeysBefore = 0
    /\ KeysAfter = 1
    /\ last.resp.question = APOLOGY
    /\ last.resp.progress = 5
    /\ TranscriptAfter[Len(TranscriptAfter)].content = APOLOGY

(***************************************************************************)
(* C14 - A signal phrase sets completion in both places: for every         *)
(* non-first turn whose generated utterance contains, case-insensitively   *)
(* as a substring, a phrase of the stop-signal list, the response has      *)
(* is_complete=true and the persisted record has complete=true after the   *)
(* turn.  (If the save faults, the turn is answered as C3 states and the   *)
(* record is unchanged.)                                                   *)
(***************************************************************************)
C14_SignalSetsComplete ==
    ( /\ ChatServed
      /\ ~last.is_first_message
      /\ last.generation.kind = "text"
      /\ \E i \in 1..Len(stop_signals) :
            Contains(Lower(last.generation.text), stop_signals[i]) )
    =>
    ( /\ last.save = "ok" =>
            /\ last.resp.kind = "response"
            /\ last.resp.is_complete = TRUE
            /\ ExistsAfter
            /\ db[last.sid].is_complete = 1
            /\ TranscriptAfter[Len(TranscriptAfter)].content
                  = Strip(last.generation.text)
      /\ last.save = "fault" =>
            /\ IsFallbackResponse(last.resp, last.sid)
            /\ TranscriptAfter = TranscriptBefore )

\* the reply " I Think We'Re Good To Go - so?\n" completed a session that
\* was not complete
C14_Witness ==
    /\ ChatServed
    /\ ~last.is_first_message
    /\ last.save = "ok"
    /\ last.generation.kind = "text"
    /\ Contains(Lower(last.generation.text),
                <<"i"," ","t","h","i","n","k"," ","w","e","'","r","e"," ",
                  "g","o","o","d"," ","t","o"," ","g","o">>)
    /\ last.generation.text[2] = "I"
    /\ ExistedBefore
    /\ ~CompleteBefore
    /\ last.resp.is_complete
    /\ db[last.sid].is_complete = 1

(***************************************************************************)
(* C15 - Lazy creation: the first reference to an unseen session_id, by a  *)
(* chat turn or by the fetch-one-session endpoint, creates and persists a  *)
(* session with empty transcript, empty profile and complete=false;        *)
(* loading a session that exists returns its persisted state and changes   *)
(* nothing in the store.  (A load that faults creates nothing.)            *)
(***************************************************************************)
C15_LazyCreation ==
    /\ (last.op = "fetch" /\ last.load = "ok" /\ ~ExistedBefore) =>
          /\ ExistsAfter
          /\ db[last.sid] = [chat_history |-> [json |-> <<>>],
                             profile_data |-> [json |-> <<>>],
                             is_complete |-> 0]
          /\ last.resp = [kind |-> "session",
                          session |-> [session_id |-> last.sid,
                                       chat_history |-> <<>>,
                                       profile_data |-> <<>>,
                                       is_complete |-> FALSE]]
    /\ (last.op = "fetch" /\ last.load = "ok" /\ ExistedBefore) =>
          /\ ExistsAfter
          /\ db[last.sid] = last.before
          /\ last.resp = [kind |-> "session",
                          session |-> [session_id |-> last.sid,
                                       chat_history |-> TranscriptBefore,
                                       profile_data |-> ProfileBefore,
                                       is_complete |-> CompleteBefore]]
    /\ (ChatServed /\ last.load = "ok" /\ ~ExistedBefore) =>
          /\ ExistsAfter
          /\ (last.save # "ok") =>
                db[last.sid] = [chat_history |-> [json |-> <<>>],
                                profile_data |-> [json |-> <<>>],
                                is_complete |-> 0]
    /\ (last.op \in {"fetch", "chat"} /\ last.load = "fault") =>
          RowOf(db, last.sid) = last.before

\* the fetch endpoint was the first reference to the id and left the empty
\* session in the store
C15_Witness ==
    /\ last.op = "fetch"
    /\ last.load = "ok"
    /\ ~ExistedBefore
    /\ ExistsAfter
    /\ TranscriptAfter = <<>>
    /\ DOMAIN ProfileAfter = {}
    /\ db[last.sid].is_complete = 0

(***************************************************************************)
(* Vocabulary of the properties of several processes: the step a process   *)
(* has just taken.                                                         *)
(***************************************************************************)
LoadStep(w) ==
    pending[w].pc = "idle" /\ pending'[w].pc = "loaded"

FinishStep(w) ==
    pending[w].pc = "loaded" /\ pending'[w].pc = "done"

AdminStep(w, op) ==
    pending[w].pc = "idle" /\ pending'[w].pc = "done" /\ pending'[w].op = op

\* process w has just referenced or deleted session s, or saved a turn of it
StepOn(w, s) ==
    /\ LoadStep(w) \/ FinishStep(w) \/ AdminStep(w, "fetch") \/ AdminStep(w, "delete")
    /\ pending'[w].sid = s

(***************************************************************************)
(* C16 - Deletion is idempotent: deleting a session_id answers with the    *)
(* deletion message whether or not the id is in the store, leaves every    *)
(* other row as it was, leaves the store unchanged when the id is not in   *)
(* it (so a second delete changes nothing), and afterwards the id is not   *)
(* in the store, not in the session list, and comes back only when a chat  *)
(* turn or a fetch references it.                                          *)
(***************************************************************************)
C16_DeleteIdempotent ==
    [][ \A w \in Workers :
          /\ AdminStep(w, "delete") =>
                /\ pending'[w].resp = [kind |-> "message"]
                /\ pending'[w].sid \notin DOMAIN db'
                /\ \A s \in ConcSessions \ {pending'[w].sid} :
                      RowOf(db', s) = RowOf(db, s)
                /\ pending'[w].sid \notin DOMAIN db => db' = db
          /\ AdminStep(w, "list") =>
                { e.session_id : e \in pending'[w].resp.sessions } = DOMAIN db
          /\ \A s \in ConcSessions :
                (s \notin DOMAIN db /\ s \in DOMAIN db' /\ pending'[w] # pending[w])
                   => (LoadStep(w) \/ AdminStep(w, "fetch")) /\ pending'[w].sid = s
      ]_vars

\* both processes have deleted s1, the second when it was already gone,
\* both were answered with the message, and s2 is still in the store
C16_Witness ==
    /\ \A w \in Workers :
          /\ pending[w].pc = "done"
          /\ pending[w].op = "delete"
          /\ pending[w].sid = "s1"
          /\ pending[w].resp = [kind |-> "message"]
    /\ DOMAIN db = {"s2"}
    /\ Len(Transcript(db, "s2")) >= 2

(***************************************************************************)
(* C17 - Session isolation: under any interleaving of turns, fetches and   *)
(* deletes of two processes, a step on session A leaves the persisted      *)
(* transcript, profile and complete flag of every other session B          *)
(* unchanged, and the row of every session is the row it reaches when the  *)
(* same requests for it run against a store that holds no other session.   *)
(***************************************************************************)
C17_SessionIsolation ==
    [][ /\ \A s \in ConcSessions : RowOf(db', s) = solo'[s]
        /\ \A w \in Workers : \A s \in ConcSessions :
              (pending'[w] # pending[w] /\ ~StepOn(w, s))
                 => RowOf(db', s) = RowOf(db, s)
      ]_vars

\* s2 has just been deleted while a turn on s1, which holds a transcript and
\* a profile, is between its load and its save
C17_Witness ==
    /\ pending["w1"].pc = "loaded"
    /\ pending["w1"].sid = "s1"
    /\ pending["w2"].pc = "done"
    /\ pending["w2"].op = "delete"
    /\ pending["w2"].sid = "s2"
    /\ "s1" \in DOMAIN db
    /\ Len(Transcript(db, "s1")) >= 2
    /\ DOMAIN Profile(db, "s1") # {}
    /\ RowOf(db, "s1") = solo["s1"]

C19_GreetingOnlyOnFirstTurn ==
    ( /\ ChatServed
      /\ last.is_first_message
      /\ ~StorageFaulted
      /\ last.resp.kind = "response"
      /\ last.resp.question = GREETING )
    => TranscriptBefore = <<>>

(***************************************************************************)
(* C21 - Empty-message turn: a non-first turn whose message is empty or    *)
(* whitespace-only does not invoke the extraction service, invokes the     *)
(* generation service, leaves the profile unchanged, and persists the      *)
(* transcript it loaded followed by exactly one assistant turn, the reply  *)
(* of the response, with no user turn.  (If the load or the save faults,   *)
(* the turn is answered as C3 states and nothing is persisted.)            *)
(***************************************************************************)
C21_EmptyMessageTurn ==
    (ChatServed /\ ~last.is_first_message /\ Strip(last.message) = <<>>) =>
        /\ last.extraction = NotCalled
        /\ ~StorageFaulted =>
              /\ last.generation.kind \in {"text", "fault"}
              /\ last.resp.kind = "response"
              /\ last.resp.question =
                    (IF last.generation.kind = "text"
                     THEN Strip(last.generation.text) ELSE APOLOGY)
              /\ ProfileAfter = ProfileBefore
              /\ TranscriptAfter =
                    Append(TranscriptBefore,
                           [role |-> "assistant", content |-> last.resp.question])
              /\ \A i \in (Len(TranscriptBefore) + 1)..Len(TranscriptAfter) :
                    TranscriptAfter[i].role # "user"
        /\ StorageFaulted =>
              /\ IsFallbackResponse(last.resp, last.sid)
              /\ TranscriptAfter = TranscriptBefore
              /\ ProfileAfter = ProfileBefore

\* a whitespace-only message on a session that holds a transcript and a
\* fact: the generation service answered and one assistant turn was added
C21_Witness ==
    /\ ChatServed
    /\ ~last.is_first_message
    /\ last.message = <<" ", " ">>
    /\ ~StorageFaulted
    /\ last.extraction = NotCalled
    /\ last.generation.kind = "text"
    /\ KeysBefore = 1
    /\ ProfileAfter = ProfileBefore
    /\ Len(TranscriptBefore) = 2
    /\ Len(TranscriptAfter) = 3
    /\ TranscriptAfter[3].role = "assistant"

(***************************************************************************)
(* C22 - Fallback leaves durable state intact: when a non-first turn ends  *)
(* in the top-level fallback because of a fault raised before the save     *)
(* (the load faults, or the extracted JSON is not a mapping), the row of   *)
(* the session is exactly the row it was before the turn, or the empty     *)
(* row created by the load for an unseen id; the user message of the turn  *)
(* is not in the persisted transcript.                                     *)
(***************************************************************************)
C22_FallbackLeavesStateIntact ==
    (ChatServed /\ ~last.is_first_message /\ last.save = "not_called") =>
        /\ IsFallbackResponse(last.resp, last.sid)
        /\ last.load = "fault" \/ ExtractedNonMapping
        /\ ExistedBefore => RowOf(db, last.sid) = last.before
        /\ ~ExistedBefore =>
              IF last.load = "fault" THEN ~ExistsAfter
              ELSE RowOf(db, last.sid) = NewRow
        /\ Len(TranscriptAfter) = Len(TranscriptBefore)
        /\ \A i \in 1..Len(TranscriptAfter) :
              TranscriptAfter[i] = TranscriptBefore[i]

\* the extraction service answered a turn with JSON that is not a mapping:
\* the turn got the fallback and the record, which held a transcript, a
\* fact and complete=true, is as it was; the message is not recorded
C22_Witness ==
    /\ ChatServed
    /\ ~last.is_first_message
    /\ last.save = "not_called"
    /\ last.load = "ok"
    /\ ExtractedNonMapping
    /\ Strip(last.message) # <<>>
    /\ IsFallbackResponse(last.resp, last.sid)
    /\ Len(TranscriptBefore) = 2
    /\ KeysBefore = 1
    /\ CompleteBefore
    /\ RowOf(db, last.sid) = last.before

(***************************************************************************)
(* C23 - Save never creates a record: the save of a turn neither adds a    *)
(* row to the store nor removes one; when the session was deleted after    *)
(* the turn loaded it, the save changes nothing, the session stays absent  *)
(* and the turn is answered with its normal response (the greeting, or     *)
(* the generated reply with the progress of the profile it merged in       *)
(* memory).  A deleted session therefore comes back only through the load  *)
(* of a later request.                                                     *)
(***************************************************************************)
C23_SaveNeverCreatesRecord ==
    [][ \A w \in Workers :
          FinishStep(w) =>
             /\ DOMAIN db' = DOMAIN db
             /\ pending'[w].found = (pending[w].sid \in DOMAIN db)
             /\ pending[w].sid \notin DOMAIN db =>
                   /\ db' = db
                   /\ pending'[w].resp.kind = "response"
                   /\ pending'[w].resp.session_id = pending[w].sid
                   /\ IF pending[w].is_first_message
                      THEN /\ pending'[w].resp.question = GREETING
                           /\ pending'[w].resp.progress = 0
                      ELSE /\ pending'[w].resp.question \in
                                 { Strip(g.text) : g \in ConcGenerations }
                           /\ IsFloorPercent(
                                 pending'[w].resp.progress,
                                 Cardinality(
                                    DOMAIN pending[w].session.profile_data
                                    \cup (IF pending'[w].extraction.kind = "json"
                                          THEN DOMAIN pending'[w].extraction.value.d
                                          ELSE {})))
      ]_vars

\* w2 deleted s1 after w1 had loaded it; w1's save matched no row, its turn
\* was answered with the generated reply and the progress of one merged
\* fact, and s1 is not in the store
C23_Witness ==
    /\ pending["w1"].pc = "done"
    /\ pending["w1"].op = "chat"
    /\ pending["w1"].sid = "s1"
    /\ ~pending["w1"].is_first_message
    /\ ~pending["w1"].found
    /\ pending["w1"].extraction.kind = "json"
    /\ pending["w1"].resp.kind = "response"
    /\ pending["w1"].resp.question = <<"M","a","j","o","r","?">>
    /\ pending["w1"].resp.progress = 5
    /\ pending["w2"].pc = "done"
    /\ pending["w2"].op = "delete"
    /\ pending["w2"].sid = "s1"
    /\ "s1" \notin DOMAIN db

(***************************************************************************)
(* C24 - The fact merge is idempotent: after a non-first turn has merged   *)
(* the extracted mapping C into the profile P it loaded and persisted the  *)
(* result, merging C into the persisted profile once more gives the        *)
(* persisted profile again.                                                *)
(***************************************************************************)
C24_MergeIdempotent ==
    (NormalTurnServed /\ ExtractedMapping) =>
        /\ ProfileAfter = MergeFacts(ProfileBefore, last.extraction.value.d)
        /\ MergeFacts(ProfileAfter, last.extraction.value.d) = ProfileAfter

\* the turn merged a mapping of two entries into a profile of one fact: the
\* longer city replaced the shorter one and the name was added
C24_Witness ==
    /\ NormalTurnServed
    /\ ExtractedMapping
    /\ DOMAIN last.extraction.value.d = {"city", "name"}
    /\ DOMAIN ProfileBefore = {"city"}
    /\ ProfileBefore["city"] = <<"L","H","R">>
    /\ DOMAIN ProfileAfter = {"city", "name"}
    /\ ProfileAfter["city"] = <<"L","a","h","o","r","e">>
    /\ ProfileAfter["name"] = <<"A","l">>
    /\ MergeFacts(ProfileAfter, last.extraction.value.d) = ProfileAfter

====
